---- MODULE Spec2Model ----
(***************************************************************************)
(* State-machine model of the CFSS agent simulator (agent.py).            *)
(*                                                                         *)
(* Numbers: Python floats are modelled as fixed-point integers in units   *)
(* of 1/ONE (0.35 is 350, 22.0 degrees is 22000).  A product is rounded    *)
(* toward zero to the unit.  A Python dict is a function whose DOMAIN is   *)
(* the set of keys present, so a missing key is a key outside the DOMAIN   *)
(* and reading it is the KeyError of the source.                           *)
(*                                                                         *)
(* Randomness: the source draws from the process-wide generator of the    *)
(* random module.  It is modelled as one global generator state rng; a     *)
(* draw reads a standard-normal value from a table and advances rng.       *)
(*                                                                         *)
(* The GUI runner (cfss_gui.py) is a second specification, GuiSpec: the   *)
(* GO button, the worker threads, their subprocesses and the output queue. *)
(***************************************************************************)
EXTENDS Integers, Sequences, FiniteSets, TLC

VARIABLES
    config,   \* the configuration object the agents are created from
    agents,   \* agent name -> the Agent object (or the not-yet-created marker)
    rng,      \* state of the process-wide random generator
    last,     \* agent name -> record of the last call made on that agent
    solo,     \* agent "B" in a run where agent "A" is never stepped
    soloRng,  \* the generator state of that run
    dtRun,    \* the dt the caller passes to every step of the run
    gui,      \* the CFSSGui window: GO button, console, output queue
    workers,  \* run -> the worker thread run_simulation started for it
    procs     \* run -> the agent.py subprocess that worker launched

agentVars == <<config, agents, rng, last, solo, soloRng, dtRun>>

guiVars == <<gui, workers, procs>>

vars == <<config, agents, rng, last, solo, soloRng, dtRun, gui, workers, procs>>

\* ------------------------------------------------------------------ bounds

\* Clicks on the GO button of the GUI.
MaxRuns == 2

\* Lines of output a subprocess writes.
MaxLines == 2

\* Calls of simulate_step per agent.
MaxSteps == 2

\* ------------------------------------------------------------- arithmetic

\* The fixed-point unit: the integer that stands for 1.0.
ONE == 10 * 10 * 10

\* Product of two fixed-point numbers, rounded toward zero.
Mul(a, b) ==
    IF a * b >= 0 THEN (a * b) \div ONE ELSE 0 - ((0 - (a * b)) \div ONE)

Abs(x) == IF x < 0 THEN 0 - x ELSE x

Max(a, b) == IF a > b THEN a ELSE b

Min(a, b) == IF a < b THEN a ELSE b

\* dict.get(k, default)
Get(d, k, default) == IF k \in DOMAIN d THEN d[k] ELSE default

\* ---------------------------------------------------------------- helpers

clamp01_no_upper(x) == IF x < 0 THEN 0 ELSE x

clamp01(x) == IF x < 0 THEN 0 ELSE IF x > ONE THEN ONE ELSE x

homeostasis(x, target, k) == x + Mul(k, target - x)

\* scale is the default 20.0: the quotient is taken directly on the units.
temp_stress(celsius, comfort) == clamp01(Abs(celsius - comfort) \div 20)

inv_u(x) == Mul(4 * x, ONE - x)

sat_factor_flat(x) == ONE

sat_factor(x) == 100 + Mul(ONE - 100, inv_u(x))

edge_factor(x) == clamp01(ONE - inv_u(x))

\* ------------------------------------------------------ random generator

Seeds == {0, 3}

\* Standard-normal values (in units of 1/ONE) the generator yields, by state.
ZTable == <<0, 1200, -700, 2500, -1800, 300, -3000, 900>>

\* The value the generator in state g yields for a standard-normal draw.
Z(g) == ZTable[g + 1]

\* The generator state after one draw.
NextRng(g) == (5 * g + 3) % 8

\* random.gauss(0.0, std) from generator state g.
gauss(std, g) == Mul(std, Z(g))

\* ---------------------------------------------------------- configuration

StateKeys == {"pain", "instability", "need_for_control", "cognitive_load",
              "neurochem_balance", "fatigue"}

EnvKeys == {"temperature", "confinement", "social_contact", "noise_level",
            "light_level"}

RegKeys == {"breathing", "cognitive_override", "pharmacology", "meditation",
            "exercise"}

NutKeys == {"glucose_level", "tryptophan", "tyrosine", "hydration",
            "vitamin_b12"}

WeightKeys == {"env", "int", "reg", "nut", "decay"}

Sections == {"internal_state", "environment", "regulation", "nutrition",
             "params"}

W(e, i, r, n, d) == [env |-> e, int |-> i, reg |-> r, nut |-> n, decay |-> d]

DEFAULT_CONFIG ==
    [internal_state |->
        [pain |-> 200, instability |-> 400, need_for_control |-> 500,
         cognitive_load |-> 400, neurochem_balance |-> 600, fatigue |-> 300],
     environment |->
        [temperature |-> 22000, confinement |-> 200, social_contact |-> 500,
         noise_level |-> 300, light_level |-> 600],
     regulation |->
        [breathing |-> 300, cognitive_override |-> 300, pharmacology |-> 0,
         meditation |-> 200, exercise |-> 100],
     nutrition |->
        [glucose_level |-> 700, tryptophan |-> 500, tyrosine |-> 500,
         hydration |-> 800, vitamin_b12 |-> 700],
     params |->
        [noise_std |-> 10,
         targets |->
            [pain |-> 200, instability |-> 200, need_for_control |-> 350,
             cognitive_load |-> 250, neurochem_balance |-> 700,
             fatigue |-> 250],
         env_update |->
            [comfort_temperature |-> 22000, env_step |-> 50,
             dispersion_noise |-> 20],
         weights |->
            [cognitive_load    |-> W(350, 300, 300, 200, 50),
             pain              |-> W(250, 300, 200, 100, 50),
             fatigue           |-> W(150, 250, 150, 250, 50),
             neurochem_balance |-> W(150, 200, 200, 400, 40),
             instability       |-> W(200, 300, 200, 150, 40),
             need_for_control  |-> W(200, 250, 250, 100, 50)]]]

\* d without key k
Without(d, k) == [x \in (DOMAIN d) \ {k} |-> d[x]]

\* Out-of-range initial state, strong weights and strong noise.
WildConfig ==
    [DEFAULT_CONFIG EXCEPT
        !.internal_state =
            [pain |-> 1500, instability |-> -300, need_for_control |-> 900,
             cognitive_load |-> 0, neurochem_balance |-> 2000,
             fatigue |-> 1000],
        !.environment =
            [temperature |-> 35000, confinement |-> 900,
             social_contact |-> 100, noise_level |-> 1000, light_level |-> 0],
        !.params.noise_std = 400,
        !.params.env_update =
            [comfort_temperature |-> 22000, env_step |-> 800,
             dispersion_noise |-> 300],
        !.params.weights.cognitive_load = W(3000, 2000, 100, 100, 900),
        !.params.weights.neurochem_balance = W(100, 100, 3000, 3000, 1500)]

\* No pain, load or need for control; full fatigue, balance and relief:
\* the motive is 0 and the agent does not act.
IdleConfig ==
    [DEFAULT_CONFIG EXCEPT
        !.internal_state =
            [pain |-> 0, instability |-> 200, need_for_control |-> 0,
             cognitive_load |-> 0, neurochem_balance |-> 1000,
             fatigue |-> 1000],
        !.regulation =
            [breathing |-> 1000, cognitive_override |-> 1000,
             pharmacology |-> 1000, meditation |-> 1000, exercise |-> 1000]]

\* IdleConfig with environment values outside [0,1].
IdleOutOfRangeConfig ==
    [IdleConfig EXCEPT
        !.environment =
            [temperature |-> 22000, confinement |-> 1500,
             social_contact |-> 1000, noise_level |-> -200,
             light_level |-> 0]]

\* The defaults with both noise scales forced to zero.
ZeroNoiseConfig ==
    [DEFAULT_CONFIG EXCEPT
        !.params.noise_std = 0,
        !.params.env_update.dispersion_noise = 0]

\* ZeroNoiseConfig with a confinement below 0.
ZeroNoiseOutOfRangeConfig ==
    [ZeroNoiseConfig EXCEPT !.environment.confinement = -200]

\* No noise and no push: every update is the homeostatic pull alone.
\* cognitive_load starts on its target; pain and its target are above 1.
PullOnlyConfig ==
    [DEFAULT_CONFIG EXCEPT
        !.internal_state.pain = 1500,
        !.internal_state.cognitive_load = 250,
        !.params.noise_std = 0,
        !.params.targets.pain = 1400,
        !.params.weights =
            [v \in StateKeys |-> W(0, 0, 0, 0, 400)]]

Configs ==
    {DEFAULT_CONFIG,
     WildConfig,
     IdleConfig,
     IdleOutOfRangeConfig,
     ZeroNoiseConfig,
     ZeroNoiseOutOfRangeConfig,
     PullOnlyConfig,
     [DEFAULT_CONFIG EXCEPT !.params.weights = Without(@, "pain")],
     [DEFAULT_CONFIG EXCEPT !.params.weights.instability = Without(@, "int")],
     [DEFAULT_CONFIG EXCEPT !.regulation = Without(@, "pharmacology")],
     [DEFAULT_CONFIG EXCEPT !.nutrition = Without(@, "hydration")],
     [DEFAULT_CONFIG EXCEPT !.params = Without(@, "noise_std")],
     Without(DEFAULT_CONFIG, "regulation")}

\* Every scalar a step reads without a default is present.
HasRequiredScalars(c) ==
    /\ Sections \subseteq DOMAIN c
    /\ StateKeys \subseteq DOMAIN c["internal_state"]
    /\ EnvKeys \subseteq DOMAIN c["environment"]
    /\ RegKeys \subseteq DOMAIN c["regulation"]
    /\ NutKeys \subseteq DOMAIN c["nutrition"]
    /\ {"noise_std", "weights"} \subseteq DOMAIN c["params"]
    /\ StateKeys \subseteq DOMAIN c["params"]["weights"]
    /\ \A v \in StateKeys : WeightKeys \subseteq DOMAIN c["params"]["weights"][v]

\* ------------------------------------------------------------------ Agent

\* An agent that has not been constructed.
NoAgent == [created |-> FALSE]

\* Agent.__init__: the result of Agent(c) for a config c holding every section.
\* dict(...) copies one level: the scalars of a section are the agent's own.
AgentInit(c) ==
    [created        |-> TRUE,
     internal_state |-> c["internal_state"],
     environment    |-> c["environment"],
     regulation     |-> c["regulation"],
     nutrition      |-> c["nutrition"],
     params         |-> c["params"],
     targets        |-> Get(c["params"], "targets", <<>>),
     envp           |-> Get(c["params"], "env_update", <<>>),
     history        |-> <<>>,
     step           |-> 0]

\* Agent(c) raises KeyError when a section is missing.
InitRaises(c) == ~(Sections \subseteq DOMAIN c)

comfort_T(self) == Get(self.envp, "comfort_temperature", 22000)

\* --- composites ---
_env_stress(self) ==
    LET e == self.environment
        social_deficit == ONE - e["social_contact"]
    IN  clamp01(Mul(350, temp_stress(e["temperature"], comfort_T(self)))
                + Mul(250, e["confinement"])
                + Mul(200, e["noise_level"])
                + Mul(200, e["light_level"])
                + Mul(200, social_deficit))

_reg_relief(self) ==
    LET r == self.regulation
    IN  clamp01(Mul(350, r["breathing"])
                + Mul(300, r["meditation"])
                + Mul(250, r["cognitive_override"])
                + Mul(150, r["exercise"])
                + Mul(400, r["pharmacology"]))

_nutrition_support(self) ==
    LET n == self.nutrition
    IN  clamp01(Mul(300, n["glucose_level"])
                + Mul(300, n["hydration"])
                + Mul(250, n["tryptophan"])
                + Mul(200, n["tyrosine"])
                + Mul(150, n["vitamin_b12"]))

\* The three composites raise KeyError unless every key they read is present.
CompositesRaise(self) ==
    ~ /\ EnvKeys \subseteq DOMAIN self.environment
      /\ RegKeys \subseteq DOMAIN self.regulation
      /\ NutKeys \subseteq DOMAIN self.nutrition

\* _noise_for(x) drawn from generator state g.
_noise_for(self, x, g) ==
    gauss(Mul(self.params["noise_std"], 500 + Mul(500, edge_factor(x))), g)

\* pull(x, k, var) of simulate_step
pull(self, x, k, var, dt) ==
    homeostasis(x, Get(self.targets, var, 300), Mul(k, dt))

load_push_stress_only(self, env, reg, nut) ==
    LET s == self.internal_state
        w_key == self.params["weights"]["cognitive_load"]
    IN  Mul(w_key["env"], env)
        + Mul(w_key["int"], Mul(600, s["pain"]) + Mul(400, s["instability"]))

\* --- the six pushes, before the saturation factor ---
load_push(self, env, reg, nut) ==
    LET s == self.internal_state
        w_key == self.params["weights"]["cognitive_load"]
    IN  Mul(w_key["env"], env)
        + Mul(w_key["int"], Mul(600, s["pain"]) + Mul(400, s["instability"]))
        - Mul(w_key["reg"], reg)
        - Mul(w_key["nut"], nut)

pain_push(self, env, reg, nut) ==
    LET s == self.internal_state
        w_key == self.params["weights"]["pain"]
    IN  Mul(w_key["env"],
            Mul(500, env)
            + Mul(500, temp_stress(self.environment["temperature"],
                                   comfort_T(self))))
        + Mul(w_key["int"], Mul(600, s["instability"]) + Mul(400, s["fatigue"]))
        - Mul(w_key["reg"],
              Mul(400, reg) + Mul(400, self.regulation["pharmacology"]))
        - Mul(w_key["nut"],
              Mul(600, self.nutrition["hydration"])
              + Mul(400, self.nutrition["glucose_level"]))

fatigue_push(self, env, reg, nut) ==
    LET s == self.internal_state
        w_key == self.params["weights"]["fatigue"]
    IN  Mul(w_key["env"],
            Mul(300, env) + Mul(200, self.environment["light_level"]))
        + Mul(w_key["int"],
              Mul(600, s["cognitive_load"]) + Mul(400, s["pain"]))
        + Mul(Mul(w_key["reg"], Mul(300, self.regulation["exercise"])), 500)
        - Mul(w_key["nut"],
              Mul(600, self.nutrition["glucose_level"])
              + Mul(400, self.nutrition["hydration"]))

ncb_push(self, env, reg, nut) ==
    LET s == self.internal_state
        w_key == self.params["weights"]["neurochem_balance"]
    IN  0 - Mul(w_key["env"], env)
        - Mul(w_key["int"],
              Mul(500, s["cognitive_load"]) + Mul(500, s["pain"]))
        + Mul(w_key["reg"],
              Mul(400, self.regulation["meditation"])
              + Mul(300, self.regulation["exercise"]))
        + Mul(w_key["nut"],
              Mul(500, self.nutrition["tryptophan"])
              + Mul(400, self.nutrition["tyrosine"])
              + Mul(300, self.nutrition["vitamin_b12"]))

inst_push(self, env, reg, nut) ==
    LET s == self.internal_state
        w_key == self.params["weights"]["instability"]
    IN  Mul(w_key["env"], env + Mul(200, self.environment["noise_level"]))
        + Mul(w_key["int"],
              Mul(400, s["cognitive_load"]) + Mul(400, s["fatigue"])
              + Mul(200, s["pain"]))
        - Mul(w_key["reg"], reg)
        - Mul(w_key["nut"], nut)

nfc_push(self, env, reg, nut) ==
    LET s == self.internal_state
        w_key == self.params["weights"]["need_for_control"]
        unpredictability ==
            clamp01(Mul(600, self.environment["noise_level"])
                    + Mul(400, ONE - self.environment["social_contact"]))
    IN  Mul(w_key["env"], unpredictability)
        + Mul(w_key["int"], Mul(600, s["instability"]) + Mul(400, s["pain"]))
        - Mul(w_key["reg"],
              Mul(500, self.regulation["breathing"])
              + Mul(500, self.regulation["meditation"]))
        - Mul(w_key["nut"], Mul(300, nut))

Push(var, self, env, reg, nut) ==
    CASE var = "cognitive_load"    -> load_push(self, env, reg, nut)
      [] var = "pain"              -> pain_push(self, env, reg, nut)
      [] var = "fatigue"           -> fatigue_push(self, env, reg, nut)
      [] var = "neurochem_balance" -> ncb_push(self, env, reg, nut)
      [] var = "instability"       -> inst_push(self, env, reg, nut)
      [] var = "need_for_control"  -> nfc_push(self, env, reg, nut)

\* The state variables the update of var reads.
Reads(var) ==
    CASE var = "cognitive_load"    -> {"pain", "instability", "cognitive_load"}
      [] var = "pain"              -> {"instability", "fatigue", "pain"}
      [] var = "fatigue"           -> {"cognitive_load", "pain", "fatigue"}
      [] var = "neurochem_balance" -> {"cognitive_load", "pain",
                                       "neurochem_balance"}
      [] var = "instability"       -> {"cognitive_load", "fatigue", "pain",
                                       "instability"}
      [] var = "need_for_control"  -> {"instability", "pain",
                                       "need_for_control"}

\* The update of var raises KeyError: a weight, a state value or noise_std
\* it reads is missing.  Every read comes before the assignment.
UpdateRaises(self, var) ==
    ~ /\ var \in DOMAIN self.params["weights"]
      /\ WeightKeys \subseteq DOMAIN self.params["weights"][var]
      /\ Reads(var) \subseteq DOMAIN self.internal_state
      /\ "noise_std" \in DOMAIN self.params

\* The value assigned to s[var]; the noise is drawn from generator state g.
NewValue(self, var, env, reg, nut, dt, g) ==
    LET x == self.internal_state[var]
        w_key == self.params["weights"][var]
        push == Mul(Push(var, self, env, reg, nut), sat_factor(x))
    IN  clamp01(pull(self, x, w_key["decay"], var, dt)
                + Mul(dt, push)
                + _noise_for(self, x, g))

\* One of the six updates, applied to the execution m of a step:
\* m.self the agent so far, m.g the generator, m.nd the draws made,
\* m.err whether KeyError has been raised.
Update(m, var, env, reg, nut, dt) ==
    IF m.err THEN m
    ELSE IF UpdateRaises(m.self, var) THEN [m EXCEPT !.err = TRUE]
    ELSE [m EXCEPT
            !.self.internal_state[var] =
                NewValue(m.self, var, env, reg, nut, dt, m.g),
            !.g = NextRng(m.g),
            !.nd = m.nd + 1]

\* --- agent acts on environment ---
\* The motive left as the weighted sum, without its clamp.
_motivation_ability_dispersion_raw(self, env_stress, reg_relief, nut_support) ==
    LET s == self.internal_state
        m == Mul(250, s["pain"])
             + Mul(200, inv_u(s["need_for_control"]))
             + Mul(150, s["cognitive_load"])
             + Mul(200, env_stress)
             - Mul(100, reg_relief)
             - Mul(100, s["fatigue"])
             - Mul(100, s["neurochem_balance"])
        a == clamp01(Mul(300, s["neurochem_balance"])
                     + Mul(250, nut_support)
                     + Mul(200, reg_relief)
                     - Mul(200, s["fatigue"])
                     - Mul(150, s["pain"])
                     - Mul(100, s["cognitive_load"])
                     - Mul(100, env_stress)
                     + Mul(100, inv_u(s["need_for_control"])))
        disp == 500
                + Mul(300, s["instability"])
                + Mul(200, env_stress)
                - Mul(200, reg_relief)
                + Mul(100, s["need_for_control"])
    IN  [m |-> m, a |-> a, disp |-> Max(300, Min(1700, disp))]

_motivation_ability_dispersion(self, env_stress, reg_relief, nut_support) ==
    LET s == self.internal_state
        m == clamp01(Mul(250, s["pain"])
                     + Mul(200, inv_u(s["need_for_control"]))
                     + Mul(150, s["cognitive_load"])
                     + Mul(200, env_stress)
                     - Mul(100, reg_relief)
                     - Mul(100, s["fatigue"])
                     - Mul(100, s["neurochem_balance"]))
        a == clamp01(Mul(300, s["neurochem_balance"])
                     + Mul(250, nut_support)
                     + Mul(200, reg_relief)
                     - Mul(200, s["fatigue"])
                     - Mul(150, s["pain"])
                     - Mul(100, s["cognitive_load"])
                     - Mul(100, env_stress)
                     + Mul(100, inv_u(s["need_for_control"])))
        disp == 500
                + Mul(300, s["instability"])
                + Mul(200, env_stress)
                - Mul(200, reg_relief)
                + Mul(100, s["need_for_control"])
    IN  [m |-> m, a |-> a, disp |-> Max(300, Min(1700, disp))]

nudgedown(x, step, disp_noise, g) ==
    clamp01(x + (0 - Mul(step, 250 + Mul(750, x))) + gauss(disp_noise, g))

nudgeup(x, step, disp_noise, g) ==
    clamp01(x + Mul(step, 250 + Mul(750, ONE - x)) + gauss(disp_noise, g))

Acts_on_zero(act) == ~(act < 0)

\* The guard of _update_environment: the agent acts.
Acts(act) == ~(act <= 0)

MoveEnvironment_counting_exercise(m, e, step, disp_noise, g1, g2, g3, g4) ==
    [m EXCEPT
        !.self.environment =
            [e EXCEPT
                !["temperature"] =
                    e["temperature"]
                    + (Mul(step, comfort_T(m.self) - e["temperature"])
                       + gauss(Mul(disp_noise, 2 * ONE), m.g)),
                !["confinement"] =
                    nudgedown(e["confinement"], step, disp_noise, g1),
                !["noise_level"] =
                    nudgedown(e["noise_level"], step, disp_noise, g2),
                !["light_level"] =
                    nudgedown(e["light_level"], step, disp_noise, g3),
                !["social_contact"] =
                    nudgeup(e["social_contact"], step, disp_noise, g4)],
        !.self.regulation["exercise"] = clamp01(@ + 250),
        !.g = NextRng(g4),
        !.nd = m.nd + 5]

\* The body of _update_environment below the guard: step and disp_noise are
\* its locals, g1..g4 the generator states after each successive draw.
MoveEnvironment(m, e, step, disp_noise, g1, g2, g3, g4) ==
    [m EXCEPT
        !.self.environment =
            [e EXCEPT
                !["temperature"] =
                    e["temperature"]
                    + (Mul(step, comfort_T(m.self) - e["temperature"])
                       + gauss(Mul(disp_noise, 2 * ONE), m.g)),
                !["confinement"] =
                    nudgedown(e["confinement"], step, disp_noise, g1),
                !["noise_level"] =
                    nudgedown(e["noise_level"], step, disp_noise, g2),
                !["light_level"] =
                    nudgedown(e["light_level"], step, disp_noise, g3),
                !["social_contact"] =
                    nudgeup(e["social_contact"], step, disp_noise, g4)],
        !.g = NextRng(g4),
        !.nd = m.nd + 5]

\* _update_environment with act computed.
UpdateEnvironmentBy(m, act, dispersion, dt) ==
    IF ~Acts(act) THEN m
    ELSE MoveEnvironment(
            m, m.self.environment,
            Mul(Mul(Get(m.self.envp, "env_step", 50), act), dt),
            Mul(Get(m.self.envp, "dispersion_noise", 20), dispersion),
            NextRng(m.g),
            NextRng(NextRng(m.g)),
            NextRng(NextRng(NextRng(m.g))),
            NextRng(NextRng(NextRng(NextRng(m.g)))))

\* _update_environment on the execution m of a step.
_update_environment(m, motive, ability, dispersion, dt) ==
    UpdateEnvironmentBy(m, Mul(motive, ability), dispersion, dt)

\* The record simulate_step appends: self after the action loop, step the
\* incremented counter, mad the diagnostics of _motivation_ability_dispersion.
Snapshot(self, step, mad) ==
    [step               |-> step,
     pain               |-> self.internal_state["pain"],
     instability        |-> self.internal_state["instability"],
     need_for_control   |-> self.internal_state["need_for_control"],
     cognitive_load     |-> self.internal_state["cognitive_load"],
     neurochem_balance  |-> self.internal_state["neurochem_balance"],
     fatigue            |-> self.internal_state["fatigue"],
     env_stress         |-> _env_stress(self),
     reg_relief         |-> _reg_relief(self),
     nut_support        |-> _nutrition_support(self),
     temperature        |-> self.environment["temperature"],
     confinement        |-> self.environment["confinement"],
     social_contact     |-> self.environment["social_contact"],
     noise_level        |-> self.environment["noise_level"],
     light_level        |-> self.environment["light_level"],
     breathing          |-> self.regulation["breathing"],
     cognitive_override |-> self.regulation["cognitive_override"],
     pharmacology       |-> self.regulation["pharmacology"],
     meditation         |-> self.regulation["meditation"],
     exercise           |-> self.regulation["exercise"],
     glucose_level      |-> self.nutrition["glucose_level"],
     tryptophan         |-> self.nutrition["tryptophan"],
     tyrosine           |-> self.nutrition["tyrosine"],
     hydration          |-> self.nutrition["hydration"],
     vitamin_b12        |-> self.nutrition["vitamin_b12"],
     motive             |-> mad.m,
     ability            |-> mad.a,
     dispersion         |-> mad.disp]

\* self.step += 1
NextStepIndex_same(n) == n

NextStepIndex(n) == n + 1

\* self.history.append(snapshot)
AppendSnapshot_front(h, snap) == <<snap>> \o h

AppendSnapshot_dropping_dispersion(h, snap) ==
    Append(h, Without(snap, "dispersion"))

\* Every entry is the one live record (the history holding a reference to it).
AppendSnapshot_aliasing(h, snap) == [k \in 1..(Len(h) + 1) |-> snap]

AppendSnapshot(h, snap) == Append(h, snap)

\* What a call of simulate_step returns when it raises nothing: the method
\* has no return statement, so the call evaluates to None.  A returned value
\* is modelled as a sequence: <<>> is None, <<v>> is the value v.
ReturnValue(snap) == <<>>

UpdateOrder_instability_first ==
    <<"cognitive_load", "instability", "pain", "fatigue",
      "neurochem_balance", "need_for_control">>

UpdateOrder_pain_first ==
    <<"pain", "cognitive_load", "fatigue", "neurochem_balance",
      "instability", "need_for_control">>

\* The order in which simulate_step updates the six variables.
UpdateOrder ==
    <<"cognitive_load", "pain", "fatigue", "neurochem_balance",
      "instability", "need_for_control">>

\* The six updates in the order of the source.
SixUpdates(m, env, reg, nut, dt) ==
    Update(
      Update(
        Update(
          Update(
            Update(
              Update(m, UpdateOrder[1], env, reg, nut, dt),
              UpdateOrder[2], env, reg, nut, dt),
            UpdateOrder[3], env, reg, nut, dt),
          UpdateOrder[4], env, reg, nut, dt),
        UpdateOrder[5], env, reg, nut, dt),
      UpdateOrder[6], env, reg, nut, dt)

\* The end of simulate_step, after the action loop left the execution m:
\* the counter is incremented and the snapshot appended.
LogSnapshot(m, step, mad) ==
    [m EXCEPT
        !.self.step = step,
        !.self.history =
            AppendSnapshot(m.self.history, Snapshot(m.self, step, mad)),
        !.ret = ReturnValue(Snapshot(m.self, step, mad))]

\* The composites logged are those computed before the action loop ran.
ActAndLog_stale_composites(m, mad, dt) ==
    [_update_environment(m, mad.m, mad.a, mad.disp, dt) EXCEPT
        !.self.step = NextStepIndex(m.self.step),
        !.self.history =
            AppendSnapshot(
                m.self.history,
                [Snapshot(_update_environment(m, mad.m, mad.a, mad.disp,
                                              dt).self,
                          NextStepIndex(m.self.step), mad)
                    EXCEPT !.env_stress = _env_stress(m.self)]),
        !.ret = ReturnValue(<<>>)]

\* simulate_step from the action loop on: m the execution after the six
\* updates, mad the diagnostics computed from the composites of the start.
ActAndLog(m, mad, dt) ==
    LogSnapshot(_update_environment(m, mad.m, mad.a, mad.disp, dt),
                NextStepIndex(m.self.step), mad)

\* simulate_step after the six updates: a KeyError raised by one of them
\* ends the call where it stands.
AfterUpdates(m, env, reg, nut, dt) ==
    IF m.err THEN m
    ELSE ActAndLog(m, _motivation_ability_dispersion(m.self, env, reg, nut), dt)

\* simulate_step once the three composites are computed.
WithComposites(m, env, reg, nut, dt) ==
    AfterUpdates(SixUpdates(m, env, reg, nut, dt), env, reg, nut, dt)

\* The execution at the start of a call.
StartOfCall(self, g) ==
    [self |-> self, g |-> g, nd |-> 0, err |-> FALSE, ret |-> <<>>]

\* simulate_step(dt) on agent self with the generator in state g.  The result
\* is the execution at the end of the call: self the agent as the call left
\* it, g the generator, nd the draws made, err whether KeyError was raised,
\* ret the value returned.
simulate_step(self, dt, g) ==
    IF "weights" \notin DOMAIN self.params \/ CompositesRaise(self)
    THEN [StartOfCall(self, g) EXCEPT !.err = TRUE]
    ELSE WithComposites(StartOfCall(self, g), _env_stress(self),
                        _reg_relief(self), _nutrition_support(self), dt)

\* --- the step with the pain update given the start-of-step instability ---

\* Update, except that the update of pain reads inst0 for instability.
VariantUpdate(m, var, inst0, env, reg, nut, dt) ==
    IF m.err THEN m
    ELSE IF UpdateRaises(m.self, var) THEN [m EXCEPT !.err = TRUE]
    ELSE [m EXCEPT
            !.self.internal_state[var] =
                NewValue(IF var = "pain"
                         THEN [m.self EXCEPT
                                 !.internal_state["instability"] = inst0]
                         ELSE m.self,
                         var, env, reg, nut, dt, m.g),
            !.g = NextRng(m.g),
            !.nd = m.nd + 1]

VariantSixUpdates(m, inst0, env, reg, nut, dt) ==
    VariantUpdate(
      VariantUpdate(
        VariantUpdate(
          VariantUpdate(
            VariantUpdate(
              VariantUpdate(m, UpdateOrder[1], inst0, env, reg, nut, dt),
              UpdateOrder[2], inst0, env, reg, nut, dt),
            UpdateOrder[3], inst0, env, reg, nut, dt),
          UpdateOrder[4], inst0, env, reg, nut, dt),
        UpdateOrder[5], inst0, env, reg, nut, dt),
      UpdateOrder[6], inst0, env, reg, nut, dt)

\* simulate_step with that one change.
variant_step(self, dt, g) ==
    IF "weights" \notin DOMAIN self.params \/ CompositesRaise(self)
    THEN [StartOfCall(self, g) EXCEPT !.err = TRUE]
    ELSE AfterUpdates(
            VariantSixUpdates(StartOfCall(self, g),
                              Get(self.internal_state, "instability", 0),
                              _env_stress(self), _reg_relief(self),
                              _nutrition_support(self), dt),
            _env_stress(self), _reg_relief(self), _nutrition_support(self),
            dt)

\* n calls of simulate_step (or of the variant) in a row, from execution m;
\* a call that raises ends the run.
RECURSIVE RunSteps(_, _, _, _)
RunSteps(m, dt, n, variant) ==
    IF n = 0 \/ m.err THEN m
    ELSE RunSteps(IF variant THEN variant_step(m.self, dt, m.g)
                  ELSE simulate_step(m.self, dt, m.g),
                  dt, n - 1, variant)

\* The generator state after k draws from state g.
RECURSIVE Draws(_, _)
Draws(g, k) == IF k = 0 THEN g ELSE NextRng(Draws(g, k - 1))

\* The states the generator can be in.
GenStates == 0..7

\* ------------------------------------------------------------- the callers

Agents == {"A", "B"}

\* The dt a caller passes to every step of a run (agent.py's own loop
\* passes 1.0).
DTs == {ONE, 2500}

\* The value a caller's intervention sets pharmacology to.
Intervention == ONE

NoCall ==
    [op |-> "none", outcome |-> "none", ncalls |-> 0, nok |-> 0,
     pre |-> NoAgent, g |-> 0, nd |-> 0, ret |-> <<>>]

\* --- the GUI runner (cfss_gui.py) before anything was clicked ---

Runs == 1..MaxRuns

\* self.proc = None
None == 0

\* CFSSGui after __init__: the button enabled, no process, nothing logged.
GuiStart ==
    [run_btn |-> "normal", proc |-> None, output_queue |-> <<>>,
     console |-> <<>>, clicks |-> 0]

\* pc: where the thread is in worker(); read: the lines it has read.
NoWorker == [pc |-> "none", read |-> 0]

\* state: none, running or exited; written: the lines written to stdout.
NoProc == [state |-> "none", written |-> 0]

Init ==
    /\ gui = GuiStart
    /\ workers = [r \in Runs |-> NoWorker]
    /\ procs = [r \in Runs |-> NoProc]
    /\ config \in Configs
    /\ dtRun \in DTs
    /\ agents = [i \in Agents |-> NoAgent]
    /\ rng \in Seeds
    /\ last = [i \in Agents |-> NoCall]
    /\ solo = NoAgent
    /\ soloRng = rng

\* agent = Agent(config)
CreateAgent(i) ==
    /\ last[i].op = "none"
    /\ IF InitRaises(config)
       THEN /\ last' = [last EXCEPT ![i].op = "create",
                                    ![i].outcome = "KeyError"]
            /\ UNCHANGED <<agents, solo>>
       ELSE /\ agents' = [agents EXCEPT ![i] = AgentInit(config)]
            /\ last' = [last EXCEPT ![i].op = "create",
                                    ![i].outcome = "returned"]
            /\ solo' = IF i = "B" THEN AgentInit(config) ELSE solo
    /\ UNCHANGED <<config, dtRun, rng, soloRng>>
    /\ UNCHANGED guiVars

\* The record kept of a call of simulate_step on agent i that ended as m.
CallRecord(i, m) ==
    [op |-> "step",
     outcome |-> IF m.err THEN "KeyError" ELSE "returned",
     ncalls |-> last[i].ncalls + 1,
     nok |-> IF m.err THEN last[i].nok ELSE last[i].nok + 1,
     pre |-> agents[i],
     g |-> rng,
     nd |-> m.nd,
     ret |-> m.ret]

\* The effect of a call of simulate_step on agent i that ended as m.
Called(i, m) ==
    /\ agents' = [agents EXCEPT ![i] = m.self]
    /\ rng' = m.g
    /\ last' = [last EXCEPT ![i] = CallRecord(i, m)]

\* The same call in the run where agent "A" is never stepped.
SoloCalled(i, ms) ==
    IF i = "B"
    THEN solo' = ms.self /\ soloRng' = ms.g
    ELSE UNCHANGED <<solo, soloRng>>

\* agent.simulate_step(dt)
Step(i) ==
    /\ agents[i].created
    /\ last[i].ncalls < MaxSteps
    /\ Called(i, simulate_step(agents[i], dtRun, rng))
    /\ SoloCalled(i, simulate_step(solo, dtRun, soloRng))
    /\ UNCHANGED <<config, dtRun>>
    /\ UNCHANGED guiVars

\* The caller changes a regulation value between steps (an intervention).
SetRegulation(i, k, v) ==
    /\ agents[i].created
    /\ k \in DOMAIN agents[i].regulation
    /\ agents[i].regulation[k] # v
    /\ agents' = [agents EXCEPT ![i].regulation[k] = v]
    /\ solo' = IF i = "B" THEN [solo EXCEPT !.regulation[k] = v] ELSE solo
    /\ last' = [last EXCEPT ![i].op = "set"]
    /\ UNCHANGED <<config, dtRun, rng, soloRng>>
    /\ UNCHANGED guiVars

Next ==
    \/ \E i \in Agents : CreateAgent(i)
    \/ \E i \in Agents : Step(i)
    \/ \E i \in Agents : SetRegulation(i, "pharmacology", Intervention)

Spec == Init /\ [][Next]_vars

\* ------------------------------------------------------ the GUI runner

\* What is put on the output queue and written to the console.
SavedMsg == [kind |-> "saved", run |-> 0, n |-> 0]

RunningMsg(r) == [kind |-> "running", run |-> r, n |-> 0]

Line(r, k) == [kind |-> "line", run |-> r, n |-> k]

Exited(r) == [kind |-> "exited", run |-> r, n |-> 0]

Error(r) == [kind |-> "error", run |-> r, n |-> 0]

\* self.log(text), on the console so far
log(console, text) == Append(console, text)

\* save_config_btn: the file is written and the fact logged, or writing
\* raises and a message box is shown.
save_config_btn(console, saved) ==
    IF saved THEN log(console, SavedMsg) ELSE console

\* A click on GO (a ttk button invokes its command only while enabled).
\* can_start is FALSE when agent.py is missing or the data directory
\* cannot be made: the handler ends before it disables the button.
run_simulation(saved, can_start) ==
    /\ gui.run_btn = "normal"
    /\ gui.clicks < MaxRuns
    /\ IF can_start
       THEN /\ gui' = [gui EXCEPT
                         !.clicks = gui.clicks + 1,
                         !.console =
                             log(save_config_btn(gui.console, saved),
                                 RunningMsg(gui.clicks + 1)),
                         !.run_btn = "disabled"]
            /\ workers' = [workers EXCEPT ![gui.clicks + 1].pc = "start"]
       ELSE /\ gui' = [gui EXCEPT
                         !.clicks = gui.clicks + 1,
                         !.console = save_config_btn(gui.console, saved)]
            /\ UNCHANGED workers
    /\ UNCHANGED procs
    /\ UNCHANGED agentVars

\* worker: proc = subprocess.Popen(...); self.proc = proc.  Popen raises
\* when the interpreter cannot be launched.
Popen(r, launched) ==
    /\ workers[r].pc = "start"
    /\ IF launched
       THEN /\ procs' = [procs EXCEPT ![r].state = "running"]
            /\ gui' = [gui EXCEPT !.proc = r]
            /\ workers' = [workers EXCEPT ![r].pc = "reading"]
       ELSE /\ workers' = [workers EXCEPT ![r].pc = "except"]
            /\ UNCHANGED <<gui, procs>>
    /\ UNCHANGED agentVars

\* The subprocess prints a line.
ProcWrites(r) ==
    /\ procs[r].state = "running"
    /\ procs[r].written < MaxLines
    /\ procs' = [procs EXCEPT ![r].written = @ + 1]
    /\ UNCHANGED <<gui, workers>>
    /\ UNCHANGED agentVars

\* The subprocess ends, which closes its end of the pipe.
ProcExits(r) ==
    /\ procs[r].state = "running"
    /\ procs' = [procs EXCEPT ![r].state = "exited"]
    /\ UNCHANGED <<gui, workers>>
    /\ UNCHANGED agentVars

\* worker: one turn of "for line in proc.stdout: self.output_queue.put(line)".
\* The text-mode pipe decodes strictly, so a line that is not valid in the
\* reader's encoding raises out of the loop (decoded = FALSE).
ReadLine(r, decoded) ==
    /\ workers[r].pc = "reading"
    /\ workers[r].read < procs[r].written
    /\ IF decoded
       THEN /\ gui' = [gui EXCEPT
                         !.output_queue =
                             Append(@, Line(r, workers[r].read + 1))]
            /\ workers' = [workers EXCEPT ![r].read = @ + 1]
       ELSE /\ workers' = [workers EXCEPT ![r].pc = "except"]
            /\ UNCHANGED gui
    /\ UNCHANGED procs
    /\ UNCHANGED agentVars

\* worker: the loop meets the end of the output; rc = proc.wait() and the
\* "[Process exited rc]" line is put on the queue.
EndOfOutput(r) ==
    /\ workers[r].pc = "reading"
    /\ procs[r].state = "exited"
    /\ workers[r].read = procs[r].written
    /\ gui' = [gui EXCEPT !.output_queue = Append(@, Exited(r))]
    /\ workers' = [workers EXCEPT ![r].pc = "finally"]
    /\ UNCHANGED procs
    /\ UNCHANGED agentVars

\* worker: except Exception as e: the "[ERROR] e" line is put on the queue.
Except(r) ==
    /\ workers[r].pc = "except"
    /\ gui' = [gui EXCEPT !.output_queue = Append(@, Error(r))]
    /\ workers' = [workers EXCEPT ![r].pc = "finally"]
    /\ UNCHANGED procs
    /\ UNCHANGED agentVars

\* worker: finally: self.proc = None; self.run_btn.config(state="normal").
Finally(r) ==
    /\ workers[r].pc = "finally"
    /\ gui' = [gui EXCEPT !.proc = None, !.run_btn = "normal"]
    /\ workers' = [workers EXCEPT ![r].pc = "done"]
    /\ UNCHANGED procs
    /\ UNCHANGED agentVars

\* The timer callback: every item on the queue is logged, oldest first.
_drain_output_queue ==
    /\ gui.output_queue # <<>>
    /\ gui' = [gui EXCEPT
                 !.console = gui.console \o gui.output_queue,
                 !.output_queue = <<>>]
    /\ UNCHANGED <<workers, procs>>
    /\ UNCHANGED agentVars

\* The GUI is a process of its own: no agent lives in it.
GuiInit ==
    /\ gui = GuiStart
    /\ workers = [r \in Runs |-> NoWorker]
    /\ procs = [r \in Runs |-> NoProc]
    /\ config = DEFAULT_CONFIG
    /\ dtRun = ONE
    /\ agents = [i \in Agents |-> NoAgent]
    /\ rng = 0
    /\ last = [i \in Agents |-> NoCall]
    /\ solo = NoAgent
    /\ soloRng = 0

GuiNext ==
    \/ \E saved, can_start \in BOOLEAN : run_simulation(saved, can_start)
    \/ \E r \in Runs : \E launched \in BOOLEAN : Popen(r, launched)
    \/ \E r \in Runs : ProcWrites(r)
    \/ \E r \in Runs : ProcExits(r)
    \/ \E r \in Runs : \E decoded \in BOOLEAN : ReadLine(r, decoded)
    \/ \E r \in Runs : EndOfOutput(r)
    \/ \E r \in Runs : Except(r)
    \/ \E r \in Runs : Finally(r)
    \/ _drain_output_queue

GuiSpec == GuiInit /\ [][GuiNext]_vars

\* The threads and the subprocess keep running, and the timer keeps firing.
GuiFairSpec ==
    /\ GuiSpec
    /\ \A r \in Runs :
          /\ WF_vars(\E launched \in BOOLEAN : Popen(r, launched))
          /\ WF_vars(ProcExits(r))
          /\ WF_vars(\E decoded \in BOOLEAN : ReadLine(r, decoded))
          /\ WF_vars(EndOfOutput(r))
          /\ WF_vars(Except(r))
          /\ WF_vars(Finally(r))
    /\ WF_vars(_drain_output_queue)

\* ------------------------------------------------------------ properties

\* The calls of simulate_step on agent i that returned, the last call among
\* them, with nothing done to the agent since.
JustStepped(i) == last[i].op = "step" /\ last[i].outcome = "returned"

\* The last call of simulate_step on agent i raised KeyError.
JustFailed(i) == last[i].op = "step" /\ last[i].outcome = "KeyError"

\* The snapshot the last step of agent i appended.
LastSnapshot(i) == agents[i].history[Len(agents[i].history)]

InUnit(x) == 0 <= x /\ x <= ONE

\* C1: after every step that completed, each of the six internal state
\* variables lies in [0,1], in the agent and in every snapshot of its
\* history, whatever the initial state, weights, targets, dt and noise.
C1_StateBounded ==
    \A i \in Agents :
        (agents[i].created /\ agents[i].step > 0) =>
            /\ \A v \in StateKeys : InUnit(agents[i].internal_state[v])
            /\ \A k \in 1..Len(agents[i].history) :
                  \A v \in StateKeys : InUnit(agents[i].history[k][v])

\* A step completed on an agent whose state held a value above 1 and a value
\* below 0 before it.
C1_Witness ==
    \E i \in Agents :
        /\ JustStepped(i)
        /\ \E v \in StateKeys : last[i].pre.internal_state[v] > ONE
        /\ \E v \in StateKeys : last[i].pre.internal_state[v] < 0
        /\ \E v \in StateKeys : agents[i].internal_state[v] = ONE

\* C2: after every step that completed, each of the four bounded environment
\* scalars lies in [0,1], whether or not the action loop acted.
C2_EnvironmentBounded ==
    \A i \in Agents :
        JustStepped(i) =>
            \A k \in EnvKeys \ {"temperature"} :
                InUnit(agents[i].environment[k])

\* C3 as stated: every step returns the snapshot it produced, the last
\* element of the history.
C3_ReturnsSnapshot ==
    \A i \in Agents :
        JustStepped(i) => last[i].ret = <<LastSnapshot(i)>>

\* C3 as amended: a step that completes returns nothing (None); the snapshot
\* it produced is the one element it added to the history, at its end, and
\* that snapshot carries the step counter, state and environment the call
\* left in the agent.
C3_SnapshotIsLastOfHistory ==
    \A i \in Agents :
        JustStepped(i) =>
            /\ last[i].ret = <<>>
            /\ Len(agents[i].history) = Len(last[i].pre.history) + 1
            /\ SubSeq(agents[i].history, 1, Len(last[i].pre.history))
                  = last[i].pre.history
            /\ LastSnapshot(i).step = agents[i].step
            /\ \A v \in StateKeys :
                  LastSnapshot(i)[v] = agents[i].internal_state[v]
            /\ \A k \in EnvKeys :
                  LastSnapshot(i)[k] = agents[i].environment[k]

\* A second step completed on an agent: the history held a snapshot before.
C3_Witness ==
    \E i \in Agents :
        /\ JustStepped(i)
        /\ Len(last[i].pre.history) >= 1
        /\ agents[i].internal_state # last[i].pre.internal_state

\* C4: after n completed steps on a fresh agent the history holds n
\* snapshots, the step counter is n, and the k-th snapshot carries index k.
C4_HistoryIndexed ==
    \A i \in Agents :
        agents[i].created =>
            /\ agents[i].step = last[i].nok
            /\ Len(agents[i].history) = last[i].nok
            /\ \A k \in 1..Len(agents[i].history) :
                  agents[i].history[k].step = k

\* Two steps completed on one agent.
C4_Witness ==
    \E i \in Agents : agents[i].created /\ last[i].nok >= 2

\* C5: a step that fails on a missing settings scalar leaves the six state
\* variables, the environment, the step counter and the history as before.
C5_FailedStepChangesNothing ==
    \A i \in Agents :
        JustFailed(i) =>
            /\ agents[i].internal_state = last[i].pre.internal_state
            /\ agents[i].environment = last[i].pre.environment
            /\ agents[i].step = last[i].pre.step
            /\ agents[i].history = last[i].pre.history

\* C6: settings lacking a required scalar are rejected at creation: no agent
\* exists, and so no step is started, on such settings.
C6_IncompleteSettingsRejected ==
    \A i \in Agents :
        (agents[i].created \/ last[i].op = "step") => HasRequiredScalars(config)

\* C7: a step whose action magnitude motive * ability is <= 0 leaves all five
\* environment values as they were and draws no environment noise (the six
\* draws of the state updates are the only ones).
C7_NoActionNoChange ==
    \A i \in Agents :
        (JustStepped(i)
           /\ Mul(LastSnapshot(i).motive, LastSnapshot(i).ability) <= 0) =>
            /\ agents[i].environment = last[i].pre.environment
            /\ last[i].nd = 6

\* A step completed with motive 0 and ability above 0: no action.
C7_Witness ==
    \E i \in Agents :
        /\ JustStepped(i)
        /\ LastSnapshot(i).motive = 0
        /\ LastSnapshot(i).ability > 0
        /\ agents[i].internal_state # last[i].pre.internal_state

\* C8: a step changes no regulation value, no nutrition value and no
\* parameter; over a run they equal the values given at creation, except a
\* regulation value the caller has set.
C8_InputsUntouched ==
    \A i \in Agents :
        /\ last[i].op = "step" =>
              /\ agents[i].regulation = last[i].pre.regulation
              /\ agents[i].nutrition = last[i].pre.nutrition
              /\ agents[i].params = last[i].pre.params
              /\ agents[i].targets = last[i].pre.targets
              /\ agents[i].envp = last[i].pre.envp
        /\ agents[i].created =>
              /\ agents[i].nutrition = config["nutrition"]
              /\ agents[i].params = config["params"]
              /\ agents[i].targets = Get(config["params"], "targets", <<>>)
              /\ agents[i].envp = Get(config["params"], "env_update", <<>>)
              /\ DOMAIN agents[i].regulation = DOMAIN config["regulation"]
              /\ \A k \in DOMAIN agents[i].regulation :
                    \/ agents[i].regulation[k] = config["regulation"][k]
                    \/ k = "pharmacology"
                       /\ agents[i].regulation[k] = Intervention

\* A step completed in which the agent acted on its environment, after two
\* steps on the agent.
C8_Witness ==
    \E i \in Agents :
        /\ JustStepped(i)
        /\ last[i].nd = 11
        /\ agents[i].step >= 2
        /\ agents[i].environment # last[i].pre.environment

\* C10: stepping agent "A" leaves agent "B" (state, environment, history,
\* and so the results of its own steps) as in the run where "A" is never
\* stepped.
C10_AgentsShareNothing ==
    agents["B"].created =>
        /\ agents["B"].internal_state = solo.internal_state
        /\ agents["B"].environment = solo.environment
        /\ agents["B"].history = solo.history

\* The field names of a snapshot, by group.
CompositeFields == {"env_stress", "reg_relief", "nut_support"}

DiagnosticFields == {"motive", "ability", "dispersion"}

RawFields == EnvKeys \cup RegKeys \cup NutKeys

\* C11 as stated: every snapshot appended by a step has exactly 19 fields.
C11_NineteenFields ==
    \A i \in Agents :
        agents[i].created =>
            \A k \in 1..Len(agents[i].history) :
                Cardinality(DOMAIN agents[i].history[k]) = 19

\* C11 as amended: every snapshot appended by a step has exactly 28 fields:
\* the step index, six state values, three composites, fifteen raw values
\* (five of the environment, five of regulation, five of nutrition) and
\* three diagnostics.
C11_TwentyEightFields ==
    \A i \in Agents :
        agents[i].created =>
            \A k \in 1..Len(agents[i].history) :
                /\ DOMAIN agents[i].history[k] =
                      {"step"} \cup StateKeys \cup CompositeFields
                      \cup RawFields \cup DiagnosticFields
                /\ Cardinality(DOMAIN agents[i].history[k]) = 28
                /\ Cardinality(RawFields) = 15

\* An agent holds the snapshots of two steps, after an intervention.
C11_Witness ==
    \E i \in Agents :
        /\ agents[i].created
        /\ Len(agents[i].history) >= 2
        /\ agents[i].regulation["pharmacology"] # config["regulation"]["pharmacology"]

\* C12: the history is append-only and its snapshots never change: whatever
\* is done to an agent, the snapshots its history held stay as they were, in
\* place, and at most one snapshot is added at the end.
C12_HistoryAppendOnly ==
    [][\A i \in Agents :
          agents[i].created =>
              /\ Len(agents'[i].history) \in
                    {Len(agents[i].history), Len(agents[i].history) + 1}
              /\ SubSeq(agents'[i].history, 1, Len(agents[i].history))
                    = agents[i].history]_vars

\* A step completed that changed the live state and the environment of an
\* agent whose history held a snapshot, and that snapshot still records the
\* earlier state.
C12_Witness ==
    \E i \in Agents :
        /\ JustStepped(i)
        /\ Len(agents[i].history) >= 2
        /\ last[i].nd = 11
        /\ agents[i].history[1].step = 1
        /\ \E v \in StateKeys :
              agents[i].history[1][v] # agents[i].internal_state[v]
        /\ \E k \in EnvKeys :
              agents[i].history[1][k] # agents[i].environment[k]

\* The agent and environment a call left, as a pair.
Outcome(self) ==
    [internal_state |-> self.internal_state,
     environment |-> self.environment,
     history |-> self.history,
     step |-> self.step]

\* C13 as stated: for at least one noise sequence, 50 steps of the variant
\* whose pain update is given the start-of-step instability produce a
\* different trajectory (the history records it) than 50 steps of the step
\* itself.
C13_VariantDiffersForSomeNoise ==
    ~InitRaises(config) =>
        \E g \in GenStates :
            Outcome(RunSteps(StartOfCall(AgentInit(config), g),
                             dtRun, 50, TRUE).self)
            # Outcome(RunSteps(StartOfCall(AgentInit(config), g),
                               dtRun, 50, FALSE).self)

\* C13 as amended: the pain update does use the value instability had at
\* the start of the step (pain is updated before instability), so the
\* variant given that value does, from the same agent and the same draws,
\* exactly what the step does.
C13_VariantIsTheStep ==
    \A i \in Agents :
        last[i].op = "step" =>
            Outcome(variant_step(last[i].pre, dtRun, last[i].g).self)
            = Outcome(agents[i])

\* A step completed that changed both pain and instability, from a state in
\* which a different instability changes the pain push.
C13_Witness ==
    \E i \in Agents :
        /\ JustStepped(i)
        /\ agents[i].internal_state["instability"]
              # last[i].pre.internal_state["instability"]
        /\ agents[i].internal_state["pain"]
              # last[i].pre.internal_state["pain"]
        /\ pain_push([last[i].pre EXCEPT
                        !.internal_state["instability"] =
                            agents[i].internal_state["instability"]],
                     0, 0, 0)
              # pain_push(last[i].pre, 0, 0, 0)

\* The first step of an agent built from the defaults with the noise forced
\* to zero, with dt = 1.0 and before any intervention.
FirstDefaultStep(i) ==
    /\ JustStepped(i)
    /\ config = ZeroNoiseConfig
    /\ dtRun = ONE
    /\ last[i].pre = AgentInit(ZeroNoiseConfig)

\* C14: from the defaults, with the noise forced to zero and dt = 1.0, the
\* first step computes a strictly negative push for cognitive_load, and
\* cognitive_load after the step is strictly below what the homeostatic pull
\* alone gives.
C14_LoadPushedNegative ==
    \A i \in Agents :
        FirstDefaultStep(i) =>
            /\ load_push(last[i].pre, _env_stress(last[i].pre),
                         _reg_relief(last[i].pre),
                         _nutrition_support(last[i].pre)) < 0
            /\ agents[i].internal_state["cognitive_load"]
                  < pull(last[i].pre,
                         last[i].pre.internal_state["cognitive_load"],
                         last[i].pre.params["weights"]["cognitive_load"]["decay"],
                         "cognitive_load", dtRun)

\* Such a first step happened, and no clamp hid the push.
C14_Witness ==
    \E i \in Agents :
        /\ FirstDefaultStep(i)
        /\ agents[i].internal_state["cognitive_load"] > 0

\* The pushes (before the saturation factor) the six updates of the last
\* call of agent i computed or, had they read the start-of-call state,
\* would have computed.
PushesOf(i) ==
    {Push(var, last[i].pre, _env_stress(last[i].pre),
          _reg_relief(last[i].pre), _nutrition_support(last[i].pre)) :
        var \in StateKeys}

\* dt * push * sat(x), as simulate_step computes it.
Contribution(dt, push, x) == Mul(dt, Mul(push, sat_factor(x)))

\* The shape of sat_factor on [0,1], in steps of 1/ONE.
SatShape ==
    /\ \A x \in 0..ONE :
          /\ sat_factor(x) >= 100
          /\ sat_factor(x) <= ONE
          /\ sat_factor(x) = sat_factor(ONE - x)
          /\ (sat_factor(x) = ONE => x = 500)
    /\ sat_factor(500) = ONE

\* C15: sat(x) stays in [0.1, 1] for every x in [0,1], is symmetric about
\* 0.5 and is 1 only at x = 0.5 (sat_factor reads no state, so its shape is
\* established once, before any agent exists); and for the same nonzero
\* push the magnitude of dt*push*sat(x) at x = 0.02 or x = 0.98 is strictly
\* smaller than at x = 0.5, for every push a step computes.
C15_SaturationDamping ==
    /\ (\A i \in Agents : ~agents[i].created) => SatShape
    /\ \A i \in Agents :
          JustStepped(i) =>
              \A p \in PushesOf(i) :
                  p # 0 =>
                      /\ Abs(Contribution(dtRun, p, 20))
                            < Abs(Contribution(dtRun, p, 500))
                      /\ Abs(Contribution(dtRun, p, 980))
                            < Abs(Contribution(dtRun, p, 500))

\* A step that computed both a positive and a negative push, with a variable
\* near an edge (where the damping is felt) before the update.
C15_Witness ==
    \E i \in Agents :
        /\ JustStepped(i)
        /\ \E p \in PushesOf(i) : p > 0
        /\ \E p \in PushesOf(i) : p < 0
        /\ \E v \in StateKeys :
              /\ last[i].pre.internal_state[v] \in 0..ONE
              /\ sat_factor(last[i].pre.internal_state[v]) < 500

\* The order C16 states.
C16Order ==
    <<"cognitive_load", "pain", "fatigue", "neurochem_balance",
      "instability", "need_for_control">>

\* What the k-th update of the last call of agent i sees if the order is
\* C16Order: the agent as it was before the call, with the variables
\* before position k at the values the call left and the others at their
\* values before the call.
C16View(i, k) ==
    [last[i].pre EXCEPT
        !.internal_state =
            [v \in StateKeys |->
                IF \E j \in 1..(k - 1) : C16Order[j] = v
                THEN agents[i].internal_state[v]
                ELSE last[i].pre.internal_state[v]]]

\* C16: a step updates cognitive_load, pain, fatigue, neurochem_balance,
\* instability, need_for_control in that order; each update reads the
\* values already written in the same pass for the variables before it and
\* the pre-step values for those after it, with the composites of the
\* pre-step environment and the next draw of the generator.
C16_UpdateOrder ==
    \A i \in Agents :
        JustStepped(i) =>
            \A k \in 1..6 :
                agents[i].internal_state[C16Order[k]]
                = NewValue(C16View(i, k), C16Order[k],
                           _env_stress(last[i].pre),
                           _reg_relief(last[i].pre),
                           _nutrition_support(last[i].pre),
                           dtRun, Draws(last[i].g, k - 1))

\* A step in which every update that reads an earlier variable got a value
\* different from the pre-step one: cognitive_load, pain, fatigue and
\* instability all changed.
C16_Witness ==
    \E i \in Agents :
        /\ JustStepped(i)
        /\ \A v \in {"cognitive_load", "pain", "fatigue", "instability"} :
              agents[i].internal_state[v] # last[i].pre.internal_state[v]
        /\ \E k \in 2..6 :
              NewValue(C16View(i, k), C16Order[k],
                       _env_stress(last[i].pre), _reg_relief(last[i].pre),
                       _nutrition_support(last[i].pre),
                       dtRun, Draws(last[i].g, k - 1))
              # NewValue(last[i].pre, C16Order[k],
                         _env_stress(last[i].pre), _reg_relief(last[i].pre),
                         _nutrition_support(last[i].pre),
                         dtRun, Draws(last[i].g, k - 1))

\* Agent i with the raw environment, regulation and nutrition values that
\* snapshot h records.
AsRecorded(i, h) ==
    [agents[i] EXCEPT
        !.environment = [k \in EnvKeys |-> h[k]],
        !.regulation = [k \in RegKeys |-> h[k]],
        !.nutrition = [k \in NutKeys |-> h[k]]]

\* The agent of the last call of i between its six updates and its action
\* loop: the state the call left, the environment it found.
BeforeActing(i) ==
    [last[i].pre EXCEPT !.internal_state = agents[i].internal_state]

\* The diagnostics computed for BeforeActing(i) from the composites env,
\* reg and nut.
DiagnosticsFrom(i, env, reg, nut) ==
    _motivation_ability_dispersion(BeforeActing(i), env, reg, nut)

\* C17: in every snapshot the three composites are those of the raw values
\* recorded in that same snapshot (the values after the action loop), while
\* the six updates and the motive, ability and dispersion of the step were
\* computed from the composites of the environment the step found.
C17_SnapshotCompositesPostAction ==
    \A i \in Agents :
        /\ agents[i].created =>
              \A k \in 1..Len(agents[i].history) :
                  /\ agents[i].history[k].env_stress
                        = _env_stress(AsRecorded(i, agents[i].history[k]))
                  /\ agents[i].history[k].reg_relief
                        = _reg_relief(AsRecorded(i, agents[i].history[k]))
                  /\ agents[i].history[k].nut_support
                        = _nutrition_support(
                              AsRecorded(i, agents[i].history[k]))
        /\ JustStepped(i) =>
              /\ agents[i].internal_state
                    = SixUpdates(StartOfCall(last[i].pre, last[i].g),
                                 _env_stress(last[i].pre),
                                 _reg_relief(last[i].pre),
                                 _nutrition_support(last[i].pre),
                                 dtRun).self.internal_state
              /\ [m |-> LastSnapshot(i).motive,
                  a |-> LastSnapshot(i).ability,
                  disp |-> LastSnapshot(i).dispersion]
                    = DiagnosticsFrom(i, _env_stress(last[i].pre),
                                      _reg_relief(last[i].pre),
                                      _nutrition_support(last[i].pre))

\* A step acted and changed the environmental stress: the snapshot's
\* composite is not the one the step started with, the diagnostics are not
\* what the logged composite would give, and the updates are not what it
\* would give either.
C17_Witness ==
    \E i \in Agents :
        /\ JustStepped(i)
        /\ last[i].nd = 11
        /\ LastSnapshot(i).env_stress # _env_stress(last[i].pre)
        /\ DiagnosticsFrom(i, LastSnapshot(i).env_stress,
                           LastSnapshot(i).reg_relief,
                           LastSnapshot(i).nut_support)
              # DiagnosticsFrom(i, _env_stress(last[i].pre),
                                _reg_relief(last[i].pre),
                                _nutrition_support(last[i].pre))
        /\ agents[i].internal_state
              # SixUpdates(StartOfCall(last[i].pre, last[i].g),
                           LastSnapshot(i).env_stress,
                           LastSnapshot(i).reg_relief,
                           LastSnapshot(i).nut_support,
                           dtRun).self.internal_state

\* The last call of agent i completed and its action loop acted
\* (act = motive * ability > 0), with no dispersion noise, dt = 1 and
\* env_step in [0,1].
ActedWithoutNoise(i) ==
    /\ JustStepped(i)
    /\ Acts(Mul(LastSnapshot(i).motive, LastSnapshot(i).ability))
    /\ Get(last[i].pre.envp, "dispersion_noise", 20) = 0
    /\ dtRun = ONE
    /\ InUnit(Get(last[i].pre.envp, "env_step", 50))

\* C18: with no dispersion noise, dt = 1 and env_step in [0,1], a step in
\* which the agent acts does not increase confinement, noise_level or
\* light_level, does not decrease social_contact, does not increase
\* |temperature - comfort_temperature|, and so does not increase the
\* environmental stress.
C18_ActingRelievesEnvironment ==
    \A i \in Agents :
        ActedWithoutNoise(i) =>
            /\ \A k \in {"confinement", "noise_level", "light_level"} :
                  agents[i].environment[k] <= last[i].pre.environment[k]
            /\ agents[i].environment["social_contact"]
                  >= last[i].pre.environment["social_contact"]
            /\ Abs(agents[i].environment["temperature"] - comfort_T(agents[i]))
                  <= Abs(last[i].pre.environment["temperature"]
                         - comfort_T(last[i].pre))
            /\ _env_stress(agents[i]) <= _env_stress(last[i].pre)

\* C19: in every snapshot motive and ability lie in [0,1] and dispersion
\* in [0.3, 1.7], so the action magnitude act = motive * ability lies in
\* [0,1].
C19_DiagnosticsBounded ==
    \A i \in Agents :
        agents[i].created =>
            \A k \in 1..Len(agents[i].history) :
                /\ InUnit(agents[i].history[k].motive)
                /\ InUnit(agents[i].history[k].ability)
                /\ agents[i].history[k].dispersion >= 300
                /\ agents[i].history[k].dispersion <= 1700
                /\ InUnit(Mul(agents[i].history[k].motive,
                              agents[i].history[k].ability))

\* An agent stepped twice: once the motive was held at 0 by its clamp or
\* the ability was, and once both were positive and the agent acted.
C19_Witness ==
    \E i, j \in Agents :
        /\ JustStepped(i)
        /\ LastSnapshot(i).ability > 0
        /\ LastSnapshot(i).motive = 0
        /\ agents[j].created
        /\ \E k \in 1..Len(agents[j].history) :
              /\ agents[j].history[k].motive > 0
              /\ agents[j].history[k].ability > 0

\* The last call of agent i completed with the noise zero, the four push
\* weights of every variable zero and 0 <= decay*dt <= 1.
PulledOnly(i) ==
    /\ JustStepped(i)
    /\ last[i].pre.params["noise_std"] = 0
    /\ \A v \in StateKeys :
          /\ \A k \in {"env", "int", "reg", "nut"} :
                last[i].pre.params["weights"][v][k] = 0
          /\ InUnit(Mul(last[i].pre.params["weights"][v]["decay"], dtRun))

\* The target the pull of variable v of agent i moves to.
TargetOf(i, v) == Get(last[i].pre.targets, v, 300)

\* C20: with the noise zero, the push weights zero and 0 <= decay*dt <= 1,
\* a step leaves each state variable between its previous value and its
\* target (inclusive): the distance to the target does not increase, and a
\* variable on its target stays there.
C20_PullWithoutOvershoot ==
    \A i \in Agents :
        PulledOnly(i) =>
            \A v \in StateKeys :
                /\ agents[i].internal_state[v]
                      >= Min(last[i].pre.internal_state[v], TargetOf(i, v))
                /\ agents[i].internal_state[v]
                      <= Max(last[i].pre.internal_state[v], TargetOf(i, v))
                /\ Abs(agents[i].internal_state[v] - TargetOf(i, v))
                      <= Abs(last[i].pre.internal_state[v] - TargetOf(i, v))
                /\ (last[i].pre.internal_state[v] = TargetOf(i, v)
                      => agents[i].internal_state[v] = TargetOf(i, v))

\* The subprocesses running.
InFlight == {r \in Runs : procs[r].state = "running"}

\* C21, the part about the button: at most one simulation subprocess is in
\* flight at a time, and the GO button is disabled for as long as a
\* subprocess is running.
C21_OneSubprocessInFlight ==
    /\ Cardinality(InFlight) <= 1
    /\ InFlight # {} => gui.run_btn = "disabled"

\* C21, the order of the steps: the click that starts a worker thread
\* leaves the button disabled.
C21_DisabledBeforeWorkerStarts ==
    [][\A r \in Runs :
          (workers[r].pc = "none" /\ workers'[r].pc = "start")
              => gui'.run_btn = "disabled"]_vars

\* What run r has had logged or queued for logging, oldest first.
OutputOf(r) ==
    SelectSeq(gui.console \o gui.output_queue,
              LAMBDA x : x.run = r /\ x.kind \in {"line", "exited", "error"})

\* C21, the output: the lines of a run reach the queue and the console in
\* the order they were written, none lost, and the "[Process exited rc]"
\* line comes after every line the process wrote.
C21_OutputInOrder ==
    \A r \in Runs :
        /\ Len(OutputOf(r)) >= workers[r].read
        /\ \A k \in 1..workers[r].read : OutputOf(r)[k] = Line(r, k)
        /\ \A k \in 1..Len(OutputOf(r)) :
              /\ k > workers[r].read => k = workers[r].read + 1
              /\ OutputOf(r)[k] = Exited(r) =>
                    /\ k = procs[r].written + 1
                    /\ procs[r].state = "exited"

\* C21, the end: a disabled button is eventually enabled again, whether the
\* process exits normally or launching it raises.
C21_EventuallyReenabled ==
    (gui.run_btn = "disabled") ~> (gui.run_btn = "normal")

====
